---- MODULE Spec2Model ----
(***************************************************************************)
(* Reconciliation layer of terraform-provider-make: the per-kind resource  *)
(* handlers (Create / Read / Update / Delete / ImportState) and the        *)
(* MakeAPIClient gateway operations they call.                             *)
(*                                                                         *)
(* One resource instance of one kind is followed through its lifecycle.    *)
(* `local` is the record persisted by the orchestrator (all attributes     *)
(* null = no record), `last` is the trace of the most recent handler       *)
(* invocation: its inputs (plan, HTTP exchange), the requests it issued    *)
(* and what it reported.                                                   *)
(***************************************************************************)
EXTENDS Integers, Sequences, FiniteSets, TLC

VARIABLES kind, client, local, planned, last

vars == <<kind, client, local, planned, last>>

(***************************************************************************)
(* Bounds of the model.                                                    *)
(***************************************************************************)
\* number of distinct identifiers the remote service may hand out
NumIds == 2
\* consecutive Delete invocations are counted up to this number
MaxDeletes == 2

(***************************************************************************)
(* Program constants.                                                      *)
(***************************************************************************)
StatusNotFound == 404
StatusError == 400

Ids == {"i" \o ToString(n) : n \in 1..NumIds}

(***************************************************************************)
(* Attribute values of the plugin framework: null / unknown / known.       *)
(***************************************************************************)
StringNull == [s |-> "null", v |-> ""]
StringUnknown == [s |-> "unknown", v |-> ""]
StringValue(x) == [s |-> "known", v |-> x]
BoolNull == [s |-> "null", v |-> FALSE]
BoolUnknown == [s |-> "unknown", v |-> FALSE]
BoolValue(b) == [s |-> "known", v |-> b]
EmptyMap == [k \in {} |-> ""]
MapNull == [s |-> "null", v |-> EmptyMap]
MapValue(m) == [s |-> "known", v |-> m]
IsNull(a) == a.s = "null"
\* ValueString / ValueBool give the zero value for null and unknown
ValueString(a) == IF a.s = "known" THEN a.v ELSE ""
ValueBool(a) == IF a.s = "known" THEN a.v ELSE FALSE

(***************************************************************************)
(* Errors: a Go error is nil or carries its formatted message.             *)
(***************************************************************************)
\* isCanceled: errors.Is(err, context.Canceled)
ErrNil == [nil |-> TRUE, msg |-> "", isCanceled |-> FALSE]
Errorf(m) == [nil |-> FALSE, msg |-> m, isCanceled |-> FALSE]
\* the error of a context that was cancelled
ContextCanceled == [nil |-> FALSE, msg |-> "context canceled", isCanceled |-> TRUE]
\* fmt.Errorf(m + "%w", e): the message of e is appended and e stays in the chain
ErrorfW(m, e) == [nil |-> FALSE, msg |-> m \o e.msg, isCanceled |-> e.isCanceled]
NoDiag == [nil |-> TRUE, summary |-> "", detail |-> ""]
AddError(summary, detail) == [nil |-> FALSE, summary |-> summary, detail |-> detail]

(***************************************************************************)
(* Resource kinds.  The kind's name is the noun used in the gateway's      *)
(* messages; Collection is its collection path.                            *)
(***************************************************************************)
Kinds == {"scenario", "connection", "webhook", "team", "organization", "data store"}

Collection(k) ==
  CASE k = "scenario" -> "v2/scenarios"
    [] k = "connection" -> "v2/connections"
    [] k = "webhook" -> "v2/webhooks"
    [] k = "team" -> "v2/teams"
    [] k = "organization" -> "v2/organizations"
    [] k = "data store" -> "v2/data-stores"

(***************************************************************************)
(* Settings values as the JSON decoder hands them over in a                *)
(* map[string]interface{}: a string, a number (always float64) or a bool.  *)
(* A number is kept as its integral part and its six-digit fraction.       *)
(***************************************************************************)
JString(x) == [t |-> "string", str |-> x, int |-> 0, frac |-> "", b |-> FALSE]
JNumber(i, f) == [t |-> "number", str |-> "", int |-> i, frac |-> f, b |-> FALSE]
JBool(x) == [t |-> "bool", str |-> "", int |-> 0, frac |-> "", b |-> x]

\* values of the other Go types the type switch tells apart: a signed and an
\* unsigned integer, a fmt.Stringer (str is what String() returns) and a value
\* of any other type (str is its %v rendering, "map[key:value]" for a map)
GoInt(i) == [t |-> "int", str |-> "", int |-> i, frac |-> "", b |-> FALSE]
GoUint(i) == [t |-> "uint", str |-> "", int |-> i, frac |-> "", b |-> FALSE]
GoStringer(x) == [t |-> "stringer", str |-> x, int |-> 0, frac |-> "", b |-> FALSE]
GoOther(x) == [t |-> "other", str |-> x, int |-> 0, frac |-> "", b |-> FALSE]

\* fmt.Sprintf("%v", v): shortest representation of a float64
SprintV(v) ==
  CASE v.t = "string" -> v.str
    [] v.t = "bool" -> IF v.b THEN "true" ELSE "false"
    [] v.t = "number" -> IF v.frac = "" THEN ToString(v.int)
                         ELSE ToString(v.int) \o "." \o v.frac
    [] v.t \in {"int", "uint"} -> ToString(v.int)
    [] v.t \in {"stringer", "other"} -> v.str

RECURSIVE Zeros(_)
Zeros(n) == IF n <= 0 THEN "" ELSE "0" \o Zeros(n - 1)

\* %f: the fraction digits (at most six here) padded to six places
Pad6(f) == f \o Zeros(6 - Len(f))

\* mutant: a float goes through the generic rendering
SprintSwitch_FloatV(v) ==
  CASE v.t = "string" -> v.str
    [] v.t = "stringer" -> v.str
    [] v.t \in {"int", "uint"} -> ToString(v.int)
    [] v.t = "number" -> SprintV(v)
    [] v.t = "bool" -> IF v.b THEN "true" ELSE "false"
    [] OTHER -> SprintV(v)

\* the type switch of WebhookResource.Create
SprintSwitch(v) ==
  CASE v.t = "string" -> v.str
    [] v.t = "stringer" -> v.str
    [] v.t \in {"int", "uint"} -> ToString(v.int)
    [] v.t = "number" -> ToString(v.int) \o "." \o Pad6(v.frac)
    [] v.t = "bool" -> IF v.b THEN "true" ELSE "false"
    [] OTHER -> SprintV(v)

\* settingsVals[k] = types.StringValue(fmt.Sprintf("%v", v)) for every key
SettingsV(m) == [k \in DOMAIN m |-> SprintV(m[k])]
SettingsSwitch(m) == [k \in DOMAIN m |-> SprintSwitch(m[k])]

\* apiReq.Settings: nil, or a map holding every configured string
NilSettings == [nil |-> TRUE, m |-> EmptyMap]
MakeSettings(a) == [nil |-> FALSE, m |-> [k \in DOMAIN a.v |-> JString(a.v[k])]]

(***************************************************************************)
(* Wire records: the response structs of the client, one per kind.         *)
(* A field left out of the JSON body decodes to its zero value.            *)
(***************************************************************************)
RespNames == {"n1"}
RespTexts == {"", "x"}
RespSettings == {EmptyMap, [a |-> JString("v")], [a |-> JNumber(42, "")]}

Responses(k) ==
  CASE k = "scenario" ->
         [ID : Ids, Name : RespNames, Description : RespTexts, Active : BOOLEAN,
          TeamID : RespTexts]
    [] k = "connection" ->
         [ID : Ids, Name : RespNames, AppName : {"gmail"}, TeamID : RespTexts,
          Verified : BOOLEAN, Settings : RespSettings]
    [] k = "webhook" ->
         [ID : Ids, Name : RespNames, URL : {"u1"}, TeamID : RespTexts,
          Active : BOOLEAN, Settings : RespSettings]
    [] k = "team" -> [ID : Ids, Name : RespNames, OrganizationID : RespTexts]
    [] k = "organization" -> [ID : Ids, Name : RespNames]
    [] k = "data store" ->
         [ID : Ids, Name : RespNames, Description : RespTexts, TeamID : RespTexts]

\* the struct a decoder starts from: every field at its zero value
ZeroResponse(k) ==
  CASE k = "scenario" ->
         [ID |-> "", Name |-> "", Description |-> "", Active |-> FALSE, TeamID |-> ""]
    [] k = "connection" ->
         [ID |-> "", Name |-> "", AppName |-> "", TeamID |-> "", Verified |-> FALSE,
          Settings |-> EmptyMap]
    [] k = "webhook" ->
         [ID |-> "", Name |-> "", URL |-> "", TeamID |-> "", Active |-> FALSE,
          Settings |-> EmptyMap]
    [] k = "team" -> [ID |-> "", Name |-> "", OrganizationID |-> ""]
    [] k = "organization" -> [ID |-> "", Name |-> ""]
    [] k = "data store" -> [ID |-> "", Name |-> "", Description |-> "", TeamID |-> ""]

(***************************************************************************)
(* Response bodies.  form = "record": a JSON object holding the kind's     *)
(* record; "error": a JSON object {error, message}; "invalid": text that   *)
(* is not JSON.  raw is the body text.                                     *)
(***************************************************************************)
RecordBody(k, r) == [form |-> "record", rec |-> r, message |-> "", error |-> "", raw |-> "{record}"]
ErrorBody(k, m, e, raw) == [form |-> "error", rec |-> ZeroResponse(k), message |-> m, error |-> e, raw |-> raw]
InvalidBody(k) == [form |-> "invalid", rec |-> ZeroResponse(k), message |-> "", error |-> "", raw |-> "<html>"]

\* a body whose transfer breaks off: io.ReadAll and the JSON decoder fail on it
UnreadableBody(k) == [form |-> "unreadable", rec |-> ZeroResponse(k), message |-> "", error |-> "", raw |-> "{mess"]

\* a body whose transfer ends because the caller cancelled the context
CancelledBody(k) == [form |-> "cancelled", rec |-> ZeroResponse(k), message |-> "", error |-> "", raw |-> ""]

\* the caller cancelled the context before HTTPClient.Do returned
Cancelled(k) == [ok |-> FALSE, status |-> 0, body |-> CancelledBody(k)]

ErrorBodies(k) == {ErrorBody(k, "bad", "E1", "{bad,E1}")}

Statuses == {200, 404, 500}

\* what the transport answers to one request: no answer at all, or a status and a body
NetFail(k) == [ok |-> FALSE, status |-> 0, body |-> InvalidBody(k)]
Exchanges(k) ==
  {NetFail(k)}
    \cup {[ok |-> TRUE, status |-> 200, body |-> b] :
            b \in {RecordBody(k, r) : r \in Responses(k)} \cup {InvalidBody(k)}}
    \cup {[ok |-> TRUE, status |-> s, body |-> b] :
            s \in Statuses \ {200}, b \in ErrorBodies(k)}

\* answers to a DELETE: the body of a success answer is never read
DeleteStatuses == {200, 204, 400, 404, 500}
DeleteExchanges(k) ==
  {NetFail(k)}
    \cup {[ok |-> TRUE, status |-> s, body |-> b] : s \in DeleteStatuses, b \in ErrorBodies(k)}

(***************************************************************************)
(* Transport adapter and gateways (MakeAPIClient).                         *)
(***************************************************************************)
NoBody == [k \in {} |-> ""]

\* the request MakeRequest sends, and the transport's answer or error
\* the client the provider's Configure builds: any configured base URL is taken as is
BaseUrls == {"https://api.make.com/", "://api.make.com"}
Clients == {[ApiToken |-> "t1", BaseUrl |-> u] : u \in BaseUrls}

\* url.Parse: a URL whose scheme is empty is refused
UrlParse(u) ==
  IF u = "://api.make.com" THEN [ok |-> FALSE, err |-> "missing protocol scheme"]
  ELSE [ok |-> TRUE, err |-> ""]

\* identifiers a gateway can be handed: those the remote service gives out,
\* the empty string of a record that carries no identifier, and a dot-dot
WireIds == Ids \cup {"", ".."}

\* the last element of the kind's collection path
CollectionName(k) ==
  CASE k = "scenario" -> "scenarios"
    [] k = "connection" -> "connections"
    [] k = "webhook" -> "webhooks"
    [] k = "team" -> "teams"
    [] k = "organization" -> "organizations"
    [] k = "data store" -> "data-stores"

RECURSIVE JoinSlash(_)
JoinSlash(s) ==
  IF s = <<>> THEN ""
  ELSE IF Len(s) = 1 THEN s[1]
  ELSE s[1] \o "/" \o JoinSlash(Tail(s))

\* the endpoints the gateways build, as their slash-separated elements
EndpointElements ==
  {<<"v2", CollectionName(k)>> : k \in Kinds}
    \cup {<<"v2", CollectionName(k), id>> : k \in Kinds, id \in WireIds}

\* the elements an endpoint string is made of
Elements(e) == CHOOSE s \in EndpointElements : JoinSlash(s) = e

\* path.Clean of a rooted path: empty and dot elements are dropped, a dot-dot
\* element drops the element before it
RECURSIVE Clean(_, _)
Clean(done, rest) ==
  IF rest = <<>> THEN done
  ELSE IF Head(rest) \in {"", "."} THEN Clean(done, Tail(rest))
  ELSE IF Head(rest) = ".."
    THEN Clean(IF done = <<>> THEN <<>> ELSE SubSeq(done, 1, Len(done) - 1), Tail(rest))
  ELSE Clean(Append(done, Head(rest)), Tail(rest))

\* path.Join(baseURL.Path, endpoint) for every endpoint the gateways build;
\* the path of the base URL is the root
PathTable ==
  [e \in {JoinSlash(s) : s \in EndpointElements} |->
     "/" \o JoinSlash(Clean(<<>>, Elements(e)))]

PathJoin(endpoint) == PathTable[endpoint]

\* the path of the URL of a request MakeRequest built
UrlPath(req) == PathJoin(req.endpoint)

\* sent: the request was handed to HTTPClient.Do; auth: its Authorization
\* header; the path of its URL is UrlPath
MakeRequest(method, endpoint, hasBody, body, x) ==
  [req |-> [method |-> method, endpoint |-> endpoint,
            auth |-> "Token " \o client.ApiToken, hasBody |-> hasBody, body |-> body,
            sent |-> UrlParse(client.BaseUrl).ok],
   err |-> IF ~UrlParse(client.BaseUrl).ok
             THEN Errorf("invalid base URL: " \o UrlParse(client.BaseUrl).err)
           ELSE IF x.ok THEN ErrNil
           ELSE IF x.body.form = "cancelled"
             THEN ErrorfW("failed to perform request: ", ContextCanceled)
           ELSE Errorf("failed to perform request: EOF")]

\* resp.Status: the status line of the answer
StatusLine(s) ==
  ToString(s) \o " " \o
    (CASE s = 400 -> "Bad Request"
       [] s = 401 -> "Unauthorized"
       [] s = 404 -> "Not Found"
       [] s = 429 -> "Too Many Requests"
       [] s = 500 -> "Internal Server Error"
       [] s = 503 -> "Service Unavailable"
       [] OTHER -> "")

\* mutant: the error field is preferred to the message field
HandleErrorResponse_ErrorFirst(x) ==
  IF x.body.form \in {"unreadable", "cancelled"}
    THEN Errorf("API request failed with status " \o ToString(x.status) \o ": "
                  \o StatusLine(x.status))
  ELSE IF x.body.form = "invalid"
    THEN Errorf("API request failed with status " \o ToString(x.status) \o ": " \o x.body.raw)
    ELSE LET m1 == x.body.error
             m2 == IF m1 = "" THEN x.body.message ELSE m1
             m3 == IF m2 = "" THEN x.body.raw ELSE m2
         IN Errorf("API request failed with status " \o ToString(x.status) \o ": " \o m3)

HandleErrorResponse(x) ==
  IF x.body.form \in {"unreadable", "cancelled"}
    THEN Errorf("API request failed with status " \o ToString(x.status) \o ": "
                  \o StatusLine(x.status))
  ELSE IF x.body.form = "invalid"
    THEN Errorf("API request failed with status " \o ToString(x.status) \o ": " \o x.body.raw)
    ELSE LET m1 == x.body.message
             m2 == IF m1 = "" THEN x.body.error ELSE m1
             m3 == IF m2 = "" THEN x.body.raw ELSE m2
         IN Errorf("API request failed with status " \o ToString(x.status) \o ": " \o m3)

\* mutant: the decoder's error is dropped and the zero record returned
Decode_IgnoreError(k, x) ==
  IF x.body.form \in {"cancelled", "unreadable", "invalid"}
    THEN [rec |-> ZeroResponse(k), err |-> ErrNil]
    ELSE [rec |-> x.body.rec, err |-> ErrNil]

\* json.NewDecoder(resp.Body).Decode(&record)
Decode(k, x) ==
  IF x.body.form = "cancelled"
    THEN [rec |-> ZeroResponse(k),
          err |-> ErrorfW("failed to decode response: ", ContextCanceled)]
  ELSE IF x.body.form = "unreadable"
    THEN [rec |-> ZeroResponse(k), err |-> Errorf("failed to decode response: unexpected EOF")]
  ELSE IF x.body.form = "invalid"
    THEN [rec |-> ZeroResponse(k), err |-> Errorf("failed to decode response: invalid character")]
    ELSE [rec |-> x.body.rec, err |-> ErrNil]

\* return nil, err: the nil record is the zero record here, no handler reads it
Failed(k, e) == [rec |-> ZeroResponse(k), err |-> e]

\* mutant: only the error path closes the body
BodyCloses_OnlyOnError(obtained, handled) == IF obtained /\ handled THEN 1 ELSE 0

\* the calls of resp.Body.Close() by the time a gateway returns: none when
\* MakeRequest gave no response, else the deferred one of the gateway and, when
\* the response went to HandleErrorResponse, the deferred one in there
BodyCloses(obtained, handled) ==
  IF ~obtained THEN 0 ELSE 1 + (IF handled THEN 1 ELSE 0)

\* mutant: the status test is off by one
GatewayCreate_Above400(k, body, x) ==
  LET t == MakeRequest("POST", Collection(k), TRUE, body, x)
      g == IF ~t.err.nil THEN Failed(k, t.err)
           ELSE IF x.status > StatusError THEN Failed(k, HandleErrorResponse(x))
           ELSE Decode(k, x)
  IN [req |-> t.req, rec |-> g.rec, err |-> g.err,
      closes |-> BodyCloses(t.err.nil, x.status > StatusError)]

GatewayCreate(k, body, x) ==
  LET t == MakeRequest("POST", Collection(k), TRUE, body, x)
      g == IF ~t.err.nil THEN Failed(k, t.err)
           ELSE IF x.status >= StatusError THEN Failed(k, HandleErrorResponse(x))
           ELSE Decode(k, x)
  IN [req |-> t.req, rec |-> g.rec, err |-> g.err,
      closes |-> BodyCloses(t.err.nil, x.status >= StatusError)]

\* mutant: the 404 answer is not told apart from the other error statuses
GatewayGet_NoNotFound(k, id, x) ==
  LET t == MakeRequest("GET", Collection(k) \o "/" \o id, FALSE, NoBody, x)
      g == IF ~t.err.nil THEN Failed(k, t.err)
           ELSE IF x.status >= StatusError THEN Failed(k, HandleErrorResponse(x))
           ELSE Decode(k, x)
  IN [req |-> t.req, rec |-> g.rec, err |-> g.err,
      closes |-> BodyCloses(t.err.nil, x.status >= StatusError)]

GatewayGet(k, id, x) ==
  LET t == MakeRequest("GET", Collection(k) \o "/" \o id, FALSE, NoBody, x)
      g == IF ~t.err.nil THEN Failed(k, t.err)
           ELSE IF x.status = StatusNotFound
             THEN Failed(k, Errorf(k \o " with ID " \o id \o " not found"))
           ELSE IF x.status >= StatusError THEN Failed(k, HandleErrorResponse(x))
           ELSE Decode(k, x)
  IN [req |-> t.req, rec |-> g.rec, err |-> g.err,
      closes |-> BodyCloses(t.err.nil, x.status >= StatusError /\ x.status # StatusNotFound)]

\* mutant: a 404 answer to the PUT is taken for success, as in the delete gateway
GatewayUpdate_NotFoundOk(k, id, body, x) ==
  LET t == MakeRequest("PUT", Collection(k) \o "/" \o id, TRUE, body, x)
      g == IF ~t.err.nil THEN Failed(k, t.err)
           ELSE IF x.status = StatusNotFound THEN Failed(k, ErrNil)
           ELSE IF x.status >= StatusError THEN Failed(k, HandleErrorResponse(x))
           ELSE Decode(k, x)
  IN [req |-> t.req, rec |-> g.rec, err |-> g.err,
      closes |-> BodyCloses(t.err.nil, x.status >= StatusError /\ x.status # StatusNotFound)]

GatewayUpdate(k, id, body, x) ==
  LET t == MakeRequest("PUT", Collection(k) \o "/" \o id, TRUE, body, x)
      g == IF ~t.err.nil THEN Failed(k, t.err)
           ELSE IF x.status = StatusNotFound
             THEN Failed(k, Errorf(k \o " with ID " \o id \o " not found"))
           ELSE IF x.status >= StatusError THEN Failed(k, HandleErrorResponse(x))
           ELSE Decode(k, x)
  IN [req |-> t.req, rec |-> g.rec, err |-> g.err,
      closes |-> BodyCloses(t.err.nil, x.status >= StatusError /\ x.status # StatusNotFound)]

\* mutant: the 404 answer is an error like every other status >= 400
GatewayDelete_NoNotFound(k, id, x) ==
  LET t == MakeRequest("DELETE", Collection(k) \o "/" \o id, FALSE, NoBody, x)
      e == IF ~t.err.nil THEN t.err
           ELSE IF x.status >= StatusError THEN HandleErrorResponse(x)
           ELSE ErrNil
  IN [req |-> t.req, rec |-> ZeroResponse(k), err |-> e,
      closes |-> BodyCloses(t.err.nil, x.status >= StatusError)]

GatewayDelete(k, id, x) ==
  LET t == MakeRequest("DELETE", Collection(k) \o "/" \o id, FALSE, NoBody, x)
      e == IF ~t.err.nil THEN t.err
           ELSE IF x.status = StatusNotFound THEN ErrNil
           ELSE IF x.status >= StatusError THEN HandleErrorResponse(x)
           ELSE ErrNil
  IN [req |-> t.req, rec |-> ZeroResponse(k), err |-> e,
      closes |-> BodyCloses(t.err.nil, x.status >= StatusError /\ x.status # StatusNotFound)]

(***************************************************************************)
(* Resource models (the ...ResourceModel structs) and the plans the        *)
(* orchestrator hands to Create and Update.                                *)
(***************************************************************************)
NullRecord(k) ==
  CASE k = "scenario" ->
         [Id |-> StringNull, Name |-> StringNull, Description |-> StringNull,
          Active |-> BoolNull, TeamId |-> StringNull]
    [] k = "connection" ->
         [Id |-> StringNull, Name |-> StringNull, AppName |-> StringNull,
          TeamId |-> StringNull, Settings |-> MapNull, Verified |-> BoolNull]
    [] k = "webhook" ->
         [Id |-> StringNull, Name |-> StringNull, URL |-> StringNull,
          TeamId |-> StringNull, Active |-> BoolNull, Settings |-> MapNull]
    [] k = "team" -> [Id |-> StringNull, Name |-> StringNull, OrganizationId |-> StringNull]
    [] k = "organization" -> [Id |-> StringNull, Name |-> StringNull]
    [] k = "data store" ->
         [Id |-> StringNull, Name |-> StringNull, Description |-> StringNull,
          TeamId |-> StringNull]

PlanNames == {StringValue("n1")}
PlanTexts == {StringNull, StringValue(""), StringValue("x")}
PlanBools == {BoolNull, BoolValue(TRUE), BoolValue(FALSE)}
PlanSettings == {MapNull, MapValue(EmptyMap), MapValue([a |-> "v"])}

\* id: unknown when planning a create, the stored identifier when planning
\* an update (UseStateForUnknown); computed attributes are unknown
Plans(k, id) ==
  CASE k = "scenario" ->
         [Id : {id}, Name : PlanNames, Description : PlanTexts, Active : PlanBools,
          TeamId : PlanTexts]
    [] k = "connection" ->
         [Id : {id}, Name : PlanNames, AppName : {StringValue("gmail")},
          TeamId : PlanTexts, Settings : PlanSettings, Verified : {BoolUnknown}]
    [] k = "webhook" ->
         [Id : {id}, Name : PlanNames, URL : {StringUnknown}, TeamId : PlanTexts,
          Active : PlanBools, Settings : PlanSettings]
    [] k = "team" -> [Id : {id}, Name : PlanNames, OrganizationId : PlanTexts]
    [] k = "organization" -> [Id : {id}, Name : PlanNames]
    [] k = "data store" ->
         [Id : {id}, Name : PlanNames, Description : PlanTexts, TeamId : PlanTexts]

(***************************************************************************)
(* Request structs and their JSON encoding.  A field tagged omitempty is   *)
(* left out of the object when it holds its zero value.                    *)
(***************************************************************************)
OmitEmptyString(key, v) == IF v = "" THEN {} ELSE {key}
OmitEmptyMap(key, st) == IF DOMAIN st.m = {} THEN {} ELSE {key}

ScenarioRequest(data) ==
  [Name |-> ValueString(data.Name),
   Active |-> ValueBool(data.Active),
   Description |-> IF ~IsNull(data.Description) THEN ValueString(data.Description) ELSE "",
   TeamID |-> IF ~IsNull(data.TeamId) THEN ValueString(data.TeamId) ELSE ""]

MarshalScenarioRequest(r) ==
  LET keys == {"name", "is_active"} \cup OmitEmptyString("description", r.Description)
                \cup OmitEmptyString("team_id", r.TeamID)
  IN [f \in keys |->
        CASE f = "name" -> r.Name
          [] f = "is_active" -> r.Active
          [] f = "description" -> r.Description
          [] f = "team_id" -> r.TeamID]

ConnectionRequest(data) ==
  [Name |-> ValueString(data.Name),
   AppName |-> ValueString(data.AppName),
   TeamID |-> IF ~IsNull(data.TeamId) THEN ValueString(data.TeamId) ELSE "",
   Settings |-> IF ~IsNull(data.Settings) THEN MakeSettings(data.Settings) ELSE NilSettings]

MarshalConnectionRequest(r) ==
  LET keys == {"name", "app_name"} \cup OmitEmptyString("team_id", r.TeamID)
                \cup OmitEmptyMap("settings", r.Settings)
  IN [f \in keys |->
        CASE f = "name" -> r.Name
          [] f = "app_name" -> r.AppName
          [] f = "team_id" -> r.TeamID
          [] f = "settings" -> r.Settings.m]

\* URL is never assigned by the handlers: it keeps its zero value
WebhookRequest(data) ==
  [Name |-> ValueString(data.Name),
   URL |-> "",
   Active |-> ValueBool(data.Active),
   TeamID |-> IF ~IsNull(data.TeamId) THEN ValueString(data.TeamId) ELSE "",
   Settings |-> IF ~IsNull(data.Settings) THEN MakeSettings(data.Settings) ELSE NilSettings]

MarshalWebhookRequest(r) ==
  LET keys == {"name", "url", "active"} \cup OmitEmptyString("team_id", r.TeamID)
                \cup OmitEmptyMap("settings", r.Settings)
  IN [f \in keys |->
        CASE f = "name" -> r.Name
          [] f = "url" -> r.URL
          [] f = "active" -> r.Active
          [] f = "team_id" -> r.TeamID
          [] f = "settings" -> r.Settings.m]

TeamRequest(data) ==
  [Name |-> ValueString(data.Name),
   OrganizationID |-> IF ~IsNull(data.OrganizationId)
                        THEN ValueString(data.OrganizationId) ELSE ""]

MarshalTeamRequest(r) ==
  LET keys == {"name"} \cup OmitEmptyString("organization_id", r.OrganizationID)
  IN [f \in keys |->
        CASE f = "name" -> r.Name
          [] f = "organization_id" -> r.OrganizationID]

OrganizationRequest(data) == [Name |-> ValueString(data.Name)]

MarshalOrganizationRequest(r) == [f \in {"name"} |-> r.Name]

DataStoreRequest(data) ==
  [Name |-> ValueString(data.Name),
   Description |-> IF ~IsNull(data.Description) THEN ValueString(data.Description) ELSE "",
   TeamID |-> IF ~IsNull(data.TeamId) THEN ValueString(data.TeamId) ELSE ""]

MarshalDataStoreRequest(r) ==
  LET keys == {"name"} \cup OmitEmptyString("description", r.Description)
                \cup OmitEmptyString("team_id", r.TeamID)
  IN [f \in keys |->
        CASE f = "name" -> r.Name
          [] f = "description" -> r.Description
          [] f = "team_id" -> r.TeamID]

(***************************************************************************)
(* Handler outcomes.  Reported: the handler added an error diagnostic and  *)
(* returned before writing, so the stored record is the prior one.         *)
(* Saved: the handler wrote `data` with resp.State.Set.                    *)
(***************************************************************************)
\* the HTTP requests a gateway call put on the wire
Sent(g) == IF g.req.sent THEN <<g.req>> ELSE <<>>

Reported(prior, g, what) ==
  [state |-> prior, wrote |-> FALSE,
   diag |-> AddError("Client Error", what \o g.err.msg),
   requests |-> Sent(g), err |-> g.err]

Saved(data, g) ==
  [state |-> data, wrote |-> TRUE, diag |-> NoDiag, requests |-> Sent(g), err |-> g.err]

(***************************************************************************)
(* ScenarioResource                                                        *)
(***************************************************************************)
\* mutant: the return after the error diagnostic is missing
ScenarioCreate_NoReturn(prior, plan, x) ==
  LET g == GatewayCreate("scenario", MarshalScenarioRequest(ScenarioRequest(plan)), x)
      r == g.rec
      data == [plan EXCEPT
                 !.Id = StringValue(r.ID),
                 !.Name = StringValue(r.Name),
                 !.Active = BoolValue(r.Active),
                 !.Description = IF r.Description # "" THEN StringValue(r.Description) ELSE @,
                 !.TeamId = IF r.TeamID # "" THEN StringValue(r.TeamID) ELSE @]
  IN IF ~g.err.nil
       THEN [Saved(data, g) EXCEPT
               !.diag = AddError("Client Error",
                                 "Unable to create scenario, got error: " \o g.err.msg)]
     ELSE Saved(data, g)

ScenarioCreate(prior, plan, x) ==
  LET g == GatewayCreate("scenario", MarshalScenarioRequest(ScenarioRequest(plan)), x)
      r == g.rec
      data == [plan EXCEPT
                 !.Id = StringValue(r.ID),
                 !.Name = StringValue(r.Name),
                 !.Active = BoolValue(r.Active),
                 !.Description = IF r.Description # "" THEN StringValue(r.Description) ELSE @,
                 !.TeamId = IF r.TeamID # "" THEN StringValue(r.TeamID) ELSE @]
  IN IF ~g.err.nil THEN Reported(prior, g, "Unable to create scenario, got error: ")
     ELSE Saved(data, g)

ScenarioRead(prior, x) ==
  LET g == GatewayGet("scenario", ValueString(prior.Id), x)
      r == g.rec
      data == [prior EXCEPT
                 !.Id = StringValue(r.ID),
                 !.Name = StringValue(r.Name),
                 !.Active = BoolValue(r.Active),
                 !.Description = IF r.Description # "" THEN StringValue(r.Description)
                                 ELSE StringNull,
                 !.TeamId = IF r.TeamID # "" THEN StringValue(r.TeamID) ELSE StringNull]
  IN IF ~g.err.nil THEN Reported(prior, g, "Unable to read scenario, got error: ")
     ELSE Saved(data, g)

\* mutant: the identifier is filled from the wrong field of the response
ScenarioUpdate_IdFromName(prior, plan, x) ==
  LET g == GatewayUpdate("scenario", ValueString(plan.Id),
                         MarshalScenarioRequest(ScenarioRequest(plan)), x)
      r == g.rec
      data == [plan EXCEPT
                 !.Id = StringValue(r.Name),
                 !.Name = StringValue(r.Name),
                 !.Active = BoolValue(r.Active),
                 !.Description = IF r.Description # "" THEN StringValue(r.Description)
                                 ELSE StringNull,
                 !.TeamId = IF r.TeamID # "" THEN StringValue(r.TeamID) ELSE StringNull]
  IN IF ~g.err.nil THEN Reported(prior, g, "Unable to update scenario, got error: ")
     ELSE Saved(data, g)

ScenarioUpdate(prior, plan, x) ==
  LET g == GatewayUpdate("scenario", ValueString(plan.Id),
                         MarshalScenarioRequest(ScenarioRequest(plan)), x)
      r == g.rec
      data == [plan EXCEPT
                 !.Id = StringValue(r.ID),
                 !.Name = StringValue(r.Name),
                 !.Active = BoolValue(r.Active),
                 !.Description = IF r.Description # "" THEN StringValue(r.Description)
                                 ELSE StringNull,
                 !.TeamId = IF r.TeamID # "" THEN StringValue(r.TeamID) ELSE StringNull]
  IN IF ~g.err.nil THEN Reported(prior, g, "Unable to update scenario, got error: ")
     ELSE Saved(data, g)

(***************************************************************************)
(* ConnectionResource                                                      *)
(***************************************************************************)
ConnectionCreate(prior, plan, x) ==
  LET g == GatewayCreate("connection", MarshalConnectionRequest(ConnectionRequest(plan)), x)
      r == g.rec
      data == [plan EXCEPT
                 !.Id = StringValue(r.ID),
                 !.Name = StringValue(r.Name),
                 !.AppName = StringValue(r.AppName),
                 !.Verified = BoolValue(r.Verified),
                 !.TeamId = IF r.TeamID # "" THEN StringValue(r.TeamID) ELSE @,
                 !.Settings = IF DOMAIN r.Settings # {} THEN MapValue(SettingsV(r.Settings))
                              ELSE @]
  IN IF ~g.err.nil THEN Reported(prior, g, "Unable to create connection, got error: ")
     ELSE Saved(data, g)

ConnectionRead(prior, x) ==
  LET g == GatewayGet("connection", ValueString(prior.Id), x)
      r == g.rec
      data == [prior EXCEPT
                 !.Id = StringValue(r.ID),
                 !.Name = StringValue(r.Name),
                 !.AppName = StringValue(r.AppName),
                 !.Verified = BoolValue(r.Verified),
                 !.TeamId = IF r.TeamID # "" THEN StringValue(r.TeamID) ELSE StringNull,
                 !.Settings = IF DOMAIN r.Settings # {} THEN MapValue(SettingsV(r.Settings))
                              ELSE MapNull]
  IN IF ~g.err.nil THEN Reported(prior, g, "Unable to read connection, got error: ")
     ELSE Saved(data, g)

ConnectionUpdate(prior, plan, x) ==
  LET g == GatewayUpdate("connection", ValueString(plan.Id),
                         MarshalConnectionRequest(ConnectionRequest(plan)), x)
      r == g.rec
      data == [plan EXCEPT
                 !.Id = StringValue(r.ID),
                 !.Name = StringValue(r.Name),
                 !.AppName = StringValue(r.AppName),
                 !.Verified = BoolValue(r.Verified),
                 !.TeamId = IF r.TeamID # "" THEN StringValue(r.TeamID) ELSE StringNull,
                 !.Settings = IF DOMAIN r.Settings # {} THEN MapValue(SettingsV(r.Settings))
                              ELSE MapNull]
  IN IF ~g.err.nil THEN Reported(prior, g, "Unable to update connection, got error: ")
     ELSE Saved(data, g)

(***************************************************************************)
(* WebhookResource                                                         *)
(***************************************************************************)
WebhookCreate(prior, plan, x) ==
  LET g == GatewayCreate("webhook", MarshalWebhookRequest(WebhookRequest(plan)), x)
      r == g.rec
      data == [plan EXCEPT
                 !.Id = StringValue(r.ID),
                 !.Name = StringValue(r.Name),
                 !.URL = StringValue(r.URL),
                 !.Active = BoolValue(r.Active),
                 !.TeamId = IF r.TeamID # "" THEN StringValue(r.TeamID) ELSE @,
                 !.Settings = IF DOMAIN r.Settings # {}
                                THEN MapValue(SettingsSwitch(r.Settings)) ELSE @]
  IN IF ~g.err.nil THEN Reported(prior, g, "Unable to create webhook, got error: ")
     ELSE Saved(data, g)

WebhookRead(prior, x) ==
  LET g == GatewayGet("webhook", ValueString(prior.Id), x)
      r == g.rec
      data == [prior EXCEPT
                 !.Id = StringValue(r.ID),
                 !.Name = StringValue(r.Name),
                 !.URL = StringValue(r.URL),
                 !.Active = BoolValue(r.Active),
                 !.TeamId = IF r.TeamID # "" THEN StringValue(r.TeamID) ELSE StringNull,
                 !.Settings = IF DOMAIN r.Settings # {} THEN MapValue(SettingsV(r.Settings))
                              ELSE MapNull]
  IN IF ~g.err.nil THEN Reported(prior, g, "Unable to read webhook, got error: ")
     ELSE Saved(data, g)

WebhookUpdate(prior, plan, x) ==
  LET g == GatewayUpdate("webhook", ValueString(plan.Id),
                         MarshalWebhookRequest(WebhookRequest(plan)), x)
      r == g.rec
      data == [plan EXCEPT
                 !.Id = StringValue(r.ID),
                 !.Name = StringValue(r.Name),
                 !.URL = StringValue(r.URL),
                 !.Active = BoolValue(r.Active),
                 !.TeamId = IF r.TeamID # "" THEN StringValue(r.TeamID) ELSE StringNull,
                 !.Settings = IF DOMAIN r.Settings # {} THEN MapValue(SettingsV(r.Settings))
                              ELSE MapNull]
  IN IF ~g.err.nil THEN Reported(prior, g, "Unable to update webhook, got error: ")
     ELSE Saved(data, g)

(***************************************************************************)
(* TeamResource                                                            *)
(***************************************************************************)
TeamCreate(prior, plan, x) ==
  LET g == GatewayCreate("team", MarshalTeamRequest(TeamRequest(plan)), x)
      r == g.rec
      data == [plan EXCEPT
                 !.Id = StringValue(r.ID),
                 !.Name = StringValue(r.Name),
                 !.OrganizationId = IF r.OrganizationID # ""
                                      THEN StringValue(r.OrganizationID) ELSE @]
  IN IF ~g.err.nil THEN Reported(prior, g, "Unable to create team, got error: ")
     ELSE Saved(data, g)

\* mutant: the optional attribute is merged, not refreshed
TeamRead_Merge(prior, x) ==
  LET g == GatewayGet("team", ValueString(prior.Id), x)
      r == g.rec
      data == [prior EXCEPT
                 !.Id = StringValue(r.ID),
                 !.Name = StringValue(r.Name),
                 !.OrganizationId = IF r.OrganizationID # ""
                                      THEN StringValue(r.OrganizationID) ELSE @]
  IN IF ~g.err.nil THEN Reported(prior, g, "Unable to read team, got error: ")
     ELSE Saved(data, g)

TeamRead(prior, x) ==
  LET g == GatewayGet("team", ValueString(prior.Id), x)
      r == g.rec
      data == [prior EXCEPT
                 !.Id = StringValue(r.ID),
                 !.Name = StringValue(r.Name),
                 !.OrganizationId = IF r.OrganizationID # ""
                                      THEN StringValue(r.OrganizationID) ELSE StringNull]
  IN IF ~g.err.nil THEN Reported(prior, g, "Unable to read team, got error: ")
     ELSE Saved(data, g)

TeamUpdate(prior, plan, x) ==
  LET g == GatewayUpdate("team", ValueString(plan.Id), MarshalTeamRequest(TeamRequest(plan)), x)
      r == g.rec
      data == [plan EXCEPT
                 !.Id = StringValue(r.ID),
                 !.Name = StringValue(r.Name),
                 !.OrganizationId = IF r.OrganizationID # ""
                                      THEN StringValue(r.OrganizationID) ELSE @]
  IN IF ~g.err.nil THEN Reported(prior, g, "Unable to update team, got error: ")
     ELSE Saved(data, g)

(***************************************************************************)
(* OrganizationResource                                                    *)
(***************************************************************************)
OrganizationCreate(prior, plan, x) ==
  LET g == GatewayCreate("organization",
                         MarshalOrganizationRequest(OrganizationRequest(plan)), x)
      r == g.rec
      data == [plan EXCEPT !.Id = StringValue(r.ID), !.Name = StringValue(r.Name)]
  IN IF ~g.err.nil THEN Reported(prior, g, "Unable to create organization, got error: ")
     ELSE Saved(data, g)

\* mutant: the name is not refreshed from the response
OrganizationRead_KeepName(prior, x) ==
  LET g == GatewayGet("organization", ValueString(prior.Id), x)
      r == g.rec
      data == [prior EXCEPT !.Id = StringValue(r.ID)]
  IN IF ~g.err.nil THEN Reported(prior, g, "Unable to read organization, got error: ")
     ELSE Saved(data, g)

OrganizationRead(prior, x) ==
  LET g == GatewayGet("organization", ValueString(prior.Id), x)
      r == g.rec
      data == [prior EXCEPT !.Id = StringValue(r.ID), !.Name = StringValue(r.Name)]
  IN IF ~g.err.nil THEN Reported(prior, g, "Unable to read organization, got error: ")
     ELSE Saved(data, g)

\* mutant: a failed request is repeated once before the error is reported
OrganizationUpdate_Retry(prior, plan, x) ==
  LET g == GatewayUpdate("organization", ValueString(plan.Id),
                         MarshalOrganizationRequest(OrganizationRequest(plan)), x)
      r == g.rec
      data == [plan EXCEPT !.Id = StringValue(r.ID), !.Name = StringValue(r.Name)]
  IN IF ~g.err.nil
       THEN [Reported(prior, g, "Unable to update organization, got error: ") EXCEPT
               !.requests = Sent(g) \o Sent(g)]
     ELSE Saved(data, g)

OrganizationUpdate(prior, plan, x) ==
  LET g == GatewayUpdate("organization", ValueString(plan.Id),
                         MarshalOrganizationRequest(OrganizationRequest(plan)), x)
      r == g.rec
      data == [plan EXCEPT !.Id = StringValue(r.ID), !.Name = StringValue(r.Name)]
  IN IF ~g.err.nil THEN Reported(prior, g, "Unable to update organization, got error: ")
     ELSE Saved(data, g)

(***************************************************************************)
(* DataStoreResource                                                       *)
(***************************************************************************)
DataStoreCreate(prior, plan, x) ==
  LET g == GatewayCreate("data store", MarshalDataStoreRequest(DataStoreRequest(plan)), x)
      r == g.rec
      data == [plan EXCEPT
                 !.Id = StringValue(r.ID),
                 !.Name = StringValue(r.Name),
                 !.Description = IF r.Description # "" THEN StringValue(r.Description) ELSE @,
                 !.TeamId = IF r.TeamID # "" THEN StringValue(r.TeamID) ELSE @]
  IN IF ~g.err.nil THEN Reported(prior, g, "Unable to create data store, got error: ")
     ELSE Saved(data, g)

DataStoreRead(prior, x) ==
  LET g == GatewayGet("data store", ValueString(prior.Id), x)
      r == g.rec
      data == [prior EXCEPT
                 !.Id = StringValue(r.ID),
                 !.Name = StringValue(r.Name),
                 !.Description = IF r.Description # "" THEN StringValue(r.Description)
                                 ELSE StringNull,
                 !.TeamId = IF r.TeamID # "" THEN StringValue(r.TeamID) ELSE StringNull]
  IN IF ~g.err.nil THEN Reported(prior, g, "Unable to read data store, got error: ")
     ELSE Saved(data, g)

DataStoreUpdate(prior, plan, x) ==
  LET g == GatewayUpdate("data store", ValueString(plan.Id),
                         MarshalDataStoreRequest(DataStoreRequest(plan)), x)
      r == g.rec
      data == [plan EXCEPT
                 !.Id = StringValue(r.ID),
                 !.Name = StringValue(r.Name),
                 !.Description = IF r.Description # "" THEN StringValue(r.Description)
                                 ELSE StringNull,
                 !.TeamId = IF r.TeamID # "" THEN StringValue(r.TeamID) ELSE StringNull]
  IN IF ~g.err.nil THEN Reported(prior, g, "Unable to update data store, got error: ")
     ELSE Saved(data, g)

(***************************************************************************)
(* Delete and ImportState are the same code for every kind.                *)
(* A Delete that returns without an error diagnostic removes the record.   *)
(***************************************************************************)
\* mutant: the handler looks the record up before it deletes it
ResourceDelete_GetFirst(k, prior, x) ==
  LET q == GatewayGet(k, ValueString(prior.Id), x)
      g == GatewayDelete(k, ValueString(prior.Id), x)
  IN IF ~g.err.nil
       THEN [Reported(prior, g, "Unable to delete " \o k \o ", got error: ") EXCEPT
               !.requests = Sent(q) \o Sent(g)]
     ELSE [state |-> NullRecord(k), wrote |-> FALSE, diag |-> NoDiag,
           requests |-> Sent(q) \o Sent(g), err |-> g.err]

\* mutant: the handler refuses to delete a record whose answer was 404
ResourceDelete_NotFoundFails(k, prior, x) ==
  LET g == GatewayDelete(k, ValueString(prior.Id), x)
      e == IF x.ok /\ x.status = StatusNotFound
             THEN Errorf(k \o " with ID " \o ValueString(prior.Id) \o " not found")
             ELSE g.err
      h == [g EXCEPT !.err = e]
  IN IF ~h.err.nil THEN Reported(prior, h, "Unable to delete " \o k \o ", got error: ")
     ELSE [state |-> NullRecord(k), wrote |-> FALSE, diag |-> NoDiag,
           requests |-> Sent(h), err |-> h.err]

ResourceDelete(k, prior, x) ==
  LET g == GatewayDelete(k, ValueString(prior.Id), x)
  IN IF ~g.err.nil THEN Reported(prior, g, "Unable to delete " \o k \o ", got error: ")
     ELSE [state |-> NullRecord(k), wrote |-> FALSE, diag |-> NoDiag,
           requests |-> Sent(g), err |-> g.err]

\* mutant: the import identifier is stored under the wrong attribute
ResourceImportState_NameAttr(k, id) ==
  [state |-> [NullRecord(k) EXCEPT !.Name = StringValue(id)], wrote |-> TRUE,
   diag |-> NoDiag, requests |-> <<>>, err |-> ErrNil]

\* resp.State.SetAttribute(ctx, path.Root("id"), req.ID)
ResourceImportState(k, id) ==
  [state |-> [NullRecord(k) EXCEPT !.Id = StringValue(id)], wrote |-> TRUE,
   diag |-> NoDiag, requests |-> <<>>, err |-> ErrNil]

ResourceCreate(k, prior, plan, x) ==
  CASE k = "scenario" -> ScenarioCreate(prior, plan, x)
    [] k = "connection" -> ConnectionCreate(prior, plan, x)
    [] k = "webhook" -> WebhookCreate(prior, plan, x)
    [] k = "team" -> TeamCreate(prior, plan, x)
    [] k = "organization" -> OrganizationCreate(prior, plan, x)
    [] k = "data store" -> DataStoreCreate(prior, plan, x)

ResourceRead(k, prior, x) ==
  CASE k = "scenario" -> ScenarioRead(prior, x)
    [] k = "connection" -> ConnectionRead(prior, x)
    [] k = "webhook" -> WebhookRead(prior, x)
    [] k = "team" -> TeamRead(prior, x)
    [] k = "organization" -> OrganizationRead(prior, x)
    [] k = "data store" -> DataStoreRead(prior, x)

ResourceUpdate(k, prior, plan, x) ==
  CASE k = "scenario" -> ScenarioUpdate(prior, plan, x)
    [] k = "connection" -> ConnectionUpdate(prior, plan, x)
    [] k = "webhook" -> WebhookUpdate(prior, plan, x)
    [] k = "team" -> TeamUpdate(prior, plan, x)
    [] k = "organization" -> OrganizationUpdate(prior, plan, x)
    [] k = "data store" -> DataStoreUpdate(prior, plan, x)

(***************************************************************************)
(* The state machine.  The orchestrator plans a create or an update        *)
(* (PlanCreate, PlanUpdate), then applies the plan by calling the handler; *)
(* Read, Delete and ImportState take no plan.                              *)
(***************************************************************************)
Absent(rec) == rec = NullRecord(kind)

NoPlan == [pending |-> FALSE, data |-> NullRecord(kind)]

NoTrace ==
  [op |-> "None", plan |-> NullRecord(kind), prior |-> NullRecord(kind),
   x |-> NetFail(kind), requests |-> <<>>, err |-> ErrNil, diag |-> NoDiag,
   wrote |-> FALSE, nth |-> 0]

Trace(op, data, prior, x, o, nth) ==
  [op |-> op, plan |-> data, prior |-> prior, x |-> x, requests |-> o.requests,
   err |-> o.err, diag |-> o.diag, wrote |-> o.wrote, nth |-> nth]

\* what the transport can answer to the handler's request; nothing is asked
\* when the request cannot be built
Answers == IF UrlParse(client.BaseUrl).ok THEN Exchanges(kind) ELSE {NetFail(kind)}
DeleteAnswers == IF UrlParse(client.BaseUrl).ok THEN DeleteExchanges(kind) ELSE {NetFail(kind)}

Init ==
  /\ kind \in Kinds
  /\ client \in Clients
  /\ local = NullRecord(kind)
  /\ planned = NoPlan
  /\ last = NoTrace

PlanCreate ==
  /\ ~planned.pending
  /\ Absent(local)
  /\ \E data \in Plans(kind, StringUnknown) : planned' = [pending |-> TRUE, data |-> data]
  /\ last' = NoTrace
  /\ UNCHANGED <<kind, client, local>>

PlanUpdate ==
  /\ ~planned.pending
  /\ ~Absent(local)
  /\ \E data \in Plans(kind, local.Id) : planned' = [pending |-> TRUE, data |-> data]
  /\ last' = NoTrace
  /\ UNCHANGED <<kind, client, local>>

Create ==
  /\ planned.pending
  /\ Absent(local)
  /\ \E x \in Answers :
       LET o == ResourceCreate(kind, local, planned.data, x)
       IN /\ local' = o.state
          /\ last' = Trace("Create", planned.data, NullRecord(kind), x, o, 0)
  /\ planned' = NoPlan
  /\ UNCHANGED <<kind, client>>

Update ==
  /\ planned.pending
  /\ ~Absent(local)
  /\ \E x \in Answers :
       LET o == ResourceUpdate(kind, local, planned.data, x)
       IN /\ local' = o.state
          /\ last' = Trace("Update", planned.data, NullRecord(kind), x, o, 0)
  /\ planned' = NoPlan
  /\ UNCHANGED <<kind, client>>

Read ==
  /\ ~planned.pending
  /\ ~Absent(local)
  /\ \E x \in Answers :
       LET o == ResourceRead(kind, local, x)
       IN /\ local' = o.state
          /\ last' = Trace("Read", NullRecord(kind), local, x, o, 0)
  /\ UNCHANGED <<kind, client, planned>>

\* Delete of the stored record, or once more of the record a Delete just removed
Delete ==
  /\ ~planned.pending
  /\ \/ ~Absent(local)
     \/ last.op = "Delete"
  /\ \E x \in DeleteAnswers :
       LET prior == IF Absent(local) THEN last.prior ELSE local
           o == ResourceDelete(kind, prior, x)
           nth == IF last.op = "Delete" THEN last.nth + 1 ELSE 1
       IN /\ nth <= MaxDeletes
          /\ local' = IF o.diag.nil THEN o.state ELSE local
          /\ last' = Trace("Delete", NullRecord(kind), prior, x, o, nth)
  /\ UNCHANGED <<kind, client, planned>>

ImportState ==
  /\ ~planned.pending
  /\ Absent(local)
  /\ \E id \in Ids :
       LET o == ResourceImportState(kind, id)
       IN /\ local' = o.state
          /\ last' = Trace("ImportState", [NullRecord(kind) EXCEPT !.Id = StringValue(id)],
                           NullRecord(kind), NetFail(kind), o, 0)
  /\ UNCHANGED <<kind, client, planned>>

Next ==
  \/ PlanCreate
  \/ PlanUpdate
  \/ Create
  \/ Read
  \/ Update
  \/ Delete
  \/ ImportState

Spec == Init /\ [][Next]_vars

(***************************************************************************)
(* Schema descriptors: the optional attributes of each kind, with the      *)
(* field of the response struct and the JSON key of the request they map   *)
(* to.                                                                     *)
(***************************************************************************)
Attr(m, r, w) == [model |-> m, resp |-> r, wire |-> w]

OptionalText(k) ==
  CASE k = "scenario" ->
         {Attr("Description", "Description", "description"), Attr("TeamId", "TeamID", "team_id")}
    [] k = "connection" -> {Attr("TeamId", "TeamID", "team_id")}
    [] k = "webhook" -> {Attr("TeamId", "TeamID", "team_id")}
    [] k = "team" -> {Attr("OrganizationId", "OrganizationID", "organization_id")}
    [] k = "organization" -> {}
    [] k = "data store" ->
         {Attr("Description", "Description", "description"), Attr("TeamId", "TeamID", "team_id")}

OptionalOther(k) ==
  CASE k = "scenario" -> {Attr("Active", "Active", "is_active")}
    [] k = "connection" -> {Attr("Settings", "Settings", "settings")}
    [] k = "webhook" ->
         {Attr("Active", "Active", "active"), Attr("Settings", "Settings", "settings")}
    [] OTHER -> {}

(***************************************************************************)
(* Vocabulary of the claims.                                               *)
(***************************************************************************)
\* the record the last answer carried
LastRec == last.x.body.rec
\* the body of the request the last handler sent
LastBody == last.requests[1].body
\* the answer of the last exchange was an HTTP answer with status s
Answered(s) == last.x.ok /\ last.x.status = s
\* the identifier the last Read or Update asked for
RequestedId == IF last.op = "Update" THEN ValueString(last.plan.Id) ELSE ValueString(local.Id)
\* every body an error answer may carry
AnyErrorBodies ==
  {ErrorBody(kind, "bad", "E1", "{bad,E1}"), ErrorBody(kind, "", "E1", "{E1}"),
   ErrorBody(kind, "", "", "{}"), InvalidBody(kind)}
    \cup {RecordBody(kind, r) : r \in Responses(kind)}
\* every error the message-extraction path can produce
ApiErrors ==
  {HandleErrorResponse([ok |-> TRUE, status |-> s, body |-> b]) :
     s \in {400, 401, 403, 404, 409, 429, 500, 503}, b \in AnyErrorBodies}

(***************************************************************************)
(* C1: when the GET of a Read answers 404, the handler reports no error    *)
(* and the record is dropped.                                              *)
(***************************************************************************)
C1_ReadNotFoundDropsRecord ==
  (last.op = "Read" /\ Answered(StatusNotFound)) => (last.diag.nil /\ Absent(local))

(***************************************************************************)
(* C2: after a successful Create, Read or Update whose remote record has   *)
(* the empty string in an optional text field, the local field is null.    *)
(***************************************************************************)
C2_NullNormalizedAfterEveryOperation ==
  (last.op \in {"Create", "Read", "Update"} /\ last.wrote) =>
    \A f \in OptionalText(kind) : LastRec[f.resp] = "" => IsNull(local[f.model])

(***************************************************************************)
(* C3: a Read that directly follows a successful Create and receives the   *)
(* same remote record leaves the local record as Create wrote it.          *)
(***************************************************************************)
C3_CreateReadRoundTrip ==
  [][(last.op = "Create" /\ last.wrote /\ last'.op = "Read" /\ last'.wrote
        /\ last'.x = last.x) => local' = local]_vars

(***************************************************************************)
(* C4: a Delete whose request answers 404 completes without error and the  *)
(* record is gone; any other status >= 400 is reported as an error.        *)
(***************************************************************************)
C4_DeleteNotFoundIsSuccess ==
  (last.op = "Delete" /\ last.x.ok) =>
    /\ last.x.status = StatusNotFound => (last.err.nil /\ last.diag.nil /\ Absent(local))
    /\ (last.x.status >= 400 /\ last.x.status # StatusNotFound) =>
         (~last.err.nil /\ ~last.diag.nil /\ (last.nth = 1 => local = last.prior))

C4_Witness ==
  /\ last.op = "Delete"
  /\ Answered(StatusNotFound)
  /\ ~Absent(last.prior)
  /\ last.diag.nil
  /\ Absent(local)

(***************************************************************************)
(* C5: the second of two Delete invocations in succession reports no       *)
(* error when its request answers a status < 400 or 404.                   *)
(***************************************************************************)
C5_SecondDeleteNeverFails ==
  (last.op = "Delete" /\ last.nth >= 2 /\ last.x.ok
     /\ (last.x.status < 400 \/ last.x.status = StatusNotFound)) =>
    (last.err.nil /\ last.diag.nil /\ Absent(local))

C5_Witness ==
  /\ last.op = "Delete"
  /\ last.nth = 2
  /\ Answered(StatusNotFound)
  /\ last.diag.nil
  /\ Absent(local)

C7_EmptyTextReachesWire ==
  (last.op \in {"Create", "Update"} /\ last.requests # <<>>) =>
    \A f \in OptionalText(kind) :
      last.plan[f.model] = StringValue("") =>
        (f.wire \in DOMAIN LastBody /\ LastBody[f.wire] = "")

(***************************************************************************)
(* C8: an optional field that is null in the plan has no entry in the body *)
(* of the create/update request.                                           *)
(***************************************************************************)
C8_NullFieldsOmitted ==
  (last.op \in {"Create", "Update"} /\ last.requests # <<>>) =>
    \A f \in OptionalText(kind) \cup OptionalOther(kind) :
      IsNull(last.plan[f.model]) => f.wire \notin DOMAIN LastBody

(***************************************************************************)
(* C9: an Update whose PUT answers 404 reports an error, issues no POST    *)
(* and leaves the stored record as it was.                                 *)
(***************************************************************************)
C9_UpdateNotFoundIsError ==
  [][(last'.op = "Update" /\ last'.x.ok /\ last'.x.status = StatusNotFound) =>
       /\ ~last'.diag.nil
       /\ ~last'.wrote
       /\ local' = local
       /\ \A i \in DOMAIN last'.requests : last'.requests[i].method # "POST"]_vars

C9_Witness ==
  /\ last.op = "Update"
  /\ Answered(StatusNotFound)
  /\ ~last.diag.nil
  /\ ~Absent(local)

(***************************************************************************)
(* C10: a 404 answer to the GET of a Read or the PUT of an Update yields   *)
(* the not-found error naming the identifier, which is none of the errors  *)
(* the message-extraction path produces.                                   *)
(***************************************************************************)
C10_NotFoundIsDistinct ==
  (last.op \in {"Read", "Update"} /\ Answered(StatusNotFound)) =>
    /\ last.err = Errorf(kind \o " with ID " \o RequestedId \o " not found")
    /\ last.err \notin ApiErrors

C10_Witness ==
  /\ last.op = "Read"
  /\ Answered(StatusNotFound)
  /\ ~last.err.nil
  /\ RequestedId \in Ids

(***************************************************************************)
(* Schema descriptors, continued: the string attributes every answer sets  *)
(* and the bool attributes, with the response field each is filled from.   *)
(***************************************************************************)
AlwaysText(k) ==
  {Attr("Id", "ID", ""), Attr("Name", "Name", "name")}
    \cup (IF k = "connection" THEN {Attr("AppName", "AppName", "app_name")} ELSE {})
    \cup (IF k = "webhook" THEN {Attr("URL", "URL", "url")} ELSE {})

BoolAttrs(k) ==
  CASE k = "scenario" -> {Attr("Active", "Active", "is_active")}
    [] k = "connection" -> {Attr("Verified", "Verified", "")}
    [] k = "webhook" -> {Attr("Active", "Active", "active")}
    [] OTHER -> {}

HasSettings(k) == k \in {"connection", "webhook"}

(***************************************************************************)
(* Vocabulary of the claims, continued.                                    *)
(***************************************************************************)
\* the null-normalized value of a remote text
NullNormal(v) == IF v = "" THEN StringNull ELSE StringValue(v)

\* a local settings attribute is the null-normalized image of the remote
\* settings: null for none, else one string per key, a string value unchanged
SettingsRefreshed(a, m) ==
  IF DOMAIN m = {} THEN a = MapNull
  ELSE /\ a.s = "known"
       /\ DOMAIN a.v = DOMAIN m
       /\ \A key \in DOMAIN m : m[key].t = "string" => a.v[key] = m[key].str

\* every field of the local record rec is the null-normalized value of the
\* remote record r
RefreshedFrom(rec, r) ==
  /\ \A f \in AlwaysText(kind) : rec[f.model] = StringValue(r[f.resp])
  /\ \A f \in BoolAttrs(kind) : rec[f.model] = BoolValue(r[f.resp])
  /\ \A f \in OptionalText(kind) : rec[f.model] = NullNormal(r[f.resp])
  /\ HasSettings(kind) => SettingsRefreshed(rec.Settings, r.Settings)
  /\ DOMAIN rec =
       {f.model : f \in AlwaysText(kind) \cup BoolAttrs(kind) \cup OptionalText(kind)}
         \cup (IF HasSettings(kind) THEN {"Settings"} ELSE {})

\* the record that holds the identifier id and nothing else
OnlyId(id) == [NullRecord(kind) EXCEPT !.Id = id]

C12_ImportThenRead ==
  [][(/\ last.op = "ImportState"
      /\ last'.op = "Read"
      /\ last'.wrote
      /\ last'.x.body.rec.ID = ValueString(last.plan.Id)) =>
       /\ Len(last'.requests) = 1
       /\ last'.requests[1].method = "GET"
       /\ last'.requests[1].endpoint = Collection(kind) \o "/" \o ValueString(last.plan.Id)
       /\ local'.Id = last.plan.Id
       /\ RefreshedFrom(local', last'.x.body.rec)]_vars

C12_Witness ==
  /\ last.op = "Read"
  /\ last.wrote
  /\ last.prior = OnlyId(StringValue("i1"))
  /\ local.Id = StringValue("i1")
  /\ local.Name = StringValue("n1")

\* the HTTP method each handler's gateway operation uses
MethodOf(op) ==
  CASE op = "Create" -> "POST"
    [] op = "Read" -> "GET"
    [] op = "Update" -> "PUT"
    [] op = "Delete" -> "DELETE"

Lifecycle == {"Create", "Read", "Update", "Delete"}

C14_StateUnchangedOnFailure ==
  [][(last'.op \in Lifecycle /\ ~last'.err.nil) =>
       (~last'.diag.nil /\ ~last'.wrote /\ local' = local)]_vars

C14_Witness ==
  /\ last.op = "Update"
  /\ Answered(500)
  /\ ~last.diag.nil
  /\ ~last.wrote
  /\ local.Name = StringValue("n1")

(***************************************************************************)
(* The gateways on their own.  One gateway operation of MakeAPIClient is   *)
(* called once, on an identifier, a request built from a plan and an       *)
(* answer of the transport drawn from a wider range of statuses and        *)
(* bodies than the handlers are driven with; `last` holds the call and     *)
(* what it returned.                                                       *)
(***************************************************************************)
WireStatuses == {200, 201, 204, 399, 400, 401, 404, 429, 500, 503}

WireBodies(k) ==
  {ErrorBody(k, "bad", "E1", "{bad,E1}"), ErrorBody(k, "bad", "", "{bad}"),
   ErrorBody(k, "", "E1", "{E1}"), ErrorBody(k, "", "", "{}"),
   InvalidBody(k), UnreadableBody(k), CancelledBody(k)}
    \cup {RecordBody(k, r) : r \in {q \in Responses(k) : q.ID = "i1"}}

WireAnswers ==
  IF UrlParse(client.BaseUrl).ok
    THEN {NetFail(kind), Cancelled(kind)}
           \cup {[ok |-> TRUE, status |-> s, body |-> b] :
                   s \in WireStatuses, b \in WireBodies(kind)}
    ELSE {NetFail(kind)}

NoCall ==
  [op |-> "none", id |-> "", x |-> NetFail(kind), requests |-> <<>>,
   rec |-> ZeroResponse(kind), err |-> ErrNil, closes |-> 0]

Call(op, id, x, g) ==
  [op |-> op, id |-> id, x |-> x, requests |-> Sent(g), rec |-> g.rec, err |-> g.err,
   closes |-> g.closes]

\* the request struct a handler builds from its plan, as the JSON body
MarshalRequest(k, data) ==
  CASE k = "scenario" -> MarshalScenarioRequest(ScenarioRequest(data))
    [] k = "connection" -> MarshalConnectionRequest(ConnectionRequest(data))
    [] k = "webhook" -> MarshalWebhookRequest(WebhookRequest(data))
    [] k = "team" -> MarshalTeamRequest(TeamRequest(data))
    [] k = "organization" -> MarshalOrganizationRequest(OrganizationRequest(data))
    [] k = "data store" -> MarshalDataStoreRequest(DataStoreRequest(data))

GatewayInit ==
  /\ kind \in Kinds
  /\ client \in Clients
  /\ local = NullRecord(kind)
  /\ planned = NoPlan
  /\ last = NoCall

CallCreate ==
  /\ last = NoCall
  /\ \E data \in Plans(kind, StringUnknown), x \in WireAnswers :
       last' = Call("create", "", x, GatewayCreate(kind, MarshalRequest(kind, data), x))
  /\ UNCHANGED <<kind, client, local, planned>>

CallGet ==
  /\ last = NoCall
  /\ \E id \in WireIds, x \in WireAnswers :
       last' = Call("get", id, x, GatewayGet(kind, id, x))
  /\ UNCHANGED <<kind, client, local, planned>>

CallUpdate ==
  /\ last = NoCall
  /\ \E id \in WireIds, x \in WireAnswers :
       \E data \in Plans(kind, StringValue(id)) :
         last' = Call("update", id, x,
                      GatewayUpdate(kind, id, MarshalRequest(kind, data), x))
  /\ UNCHANGED <<kind, client, local, planned>>

CallDelete ==
  /\ last = NoCall
  /\ \E id \in WireIds, x \in WireAnswers :
       last' = Call("delete", id, x, GatewayDelete(kind, id, x))
  /\ UNCHANGED <<kind, client, local, planned>>

GatewayNext ==
  \/ CallCreate
  \/ CallGet
  \/ CallUpdate
  \/ CallDelete

GatewaySpec == GatewayInit /\ [][GatewayNext]_vars

(***************************************************************************)
(* Vocabulary of the claims about the gateways.                            *)
(***************************************************************************)
\* the last call was answered with a status that its gateway hands to the
\* error-body extraction
ApiFailure ==
  /\ last.op \in {"create", "get", "update", "delete"}
  /\ last.x.ok
  /\ last.x.status >= 400
  /\ last.op = "create" \/ last.x.status # StatusNotFound

ApiErrorOf(status, text) ==
  Errorf("API request failed with status " \o ToString(status) \o ": " \o text)

\* the body is a JSON object, so it parses as the structured error object
Parses(b) == b.form \in {"error", "record"}

\* the message the extraction policy picks from a body
Extracted(b) ==
  IF Parses(b) /\ b.message # "" THEN b.message
  ELSE IF Parses(b) /\ b.error # "" THEN b.error
  ELSE b.raw

(***************************************************************************)
(* C15 as claimed: an answer with status >= 400 handled as an API error is *)
(* reported with the body's message field if the body parses and the field *)
(* is not empty, else its error field if not empty, else the raw body.     *)
(***************************************************************************)
C15_MessageFromBody ==
  ApiFailure => last.err = ApiErrorOf(last.x.status, Extracted(last.x.body))

(***************************************************************************)
(* C15 as amended: the same whenever the body can be read; when reading    *)
(* the body fails the message is the status line of the answer.            *)
(***************************************************************************)
C15_MessageFromBodyOrStatusLine ==
  ApiFailure =>
    last.err = ApiErrorOf(last.x.status,
                          IF last.x.body.form \in {"unreadable", "cancelled"}
                            THEN StatusLine(last.x.status)
                          ELSE Extracted(last.x.body))

C15_Witness ==
  /\ last.op = "create"
  /\ last.x.ok
  /\ last.x.status = 500
  /\ last.x.body = ErrorBody(kind, "bad", "", "{bad}")
  /\ last.err.msg = "API request failed with status 500: bad"

(***************************************************************************)
(* C16: create returns an API error for every status >= 400, 404 included  *)
(* and not told apart; get and update return an API error for every status *)
(* >= 400 other than 404; no record is returned in any of these cases.     *)
(***************************************************************************)
C16_StatusClassification ==
  (ApiFailure /\ last.op \in {"create", "get", "update"}) =>
    /\ ~last.err.nil
    /\ last.err \in {ApiErrorOf(last.x.status, t) :
                       t \in {last.x.body.message, last.x.body.error, last.x.body.raw,
                              StatusLine(last.x.status)}}
    /\ last.err # Errorf(kind \o " with ID " \o last.id \o " not found")
    /\ last.rec = ZeroResponse(kind)

C16_Witness ==
  /\ last.op = "create"
  /\ last.x.ok
  /\ last.x.status = StatusNotFound
  /\ last.err.msg = "API request failed with status 404: bad"
  /\ last.rec = ZeroResponse(kind)

(***************************************************************************)
(* Vocabulary of the claims about the handlers, continued.                 *)
(***************************************************************************)
\* the single request of the last handler went out and failed: no answer,
\* or an answer the gateway turns into an error
RequestFailed ==
  /\ last.requests # <<>>
  /\ \/ ~last.x.ok
     \/ /\ last.x.status >= 400
        /\ ~(last.op = "Delete" /\ last.x.status = StatusNotFound)

VerbOf(op) ==
  CASE op = "Create" -> "create"
    [] op = "Read" -> "read"
    [] op = "Update" -> "update"
    [] op = "Delete" -> "delete"

(***************************************************************************)
(* C17: when the request of a Create, Update or Delete fails (no answer,   *)
(* or a status >= 400 that is an error for the operation), no further      *)
(* request is issued in that invocation and the one error of the gateway   *)
(* is what the handler reports.                                            *)
(***************************************************************************)
C17_NoRetries ==
  (last.op \in {"Create", "Update", "Delete"} /\ RequestFailed) =>
    /\ Len(last.requests) = 1
    /\ ~last.err.nil
    /\ last.diag = AddError("Client Error",
                            "Unable to " \o VerbOf(last.op) \o " " \o kind
                              \o ", got error: " \o last.err.msg)

C17_Witness ==
  /\ last.op = "Create"
  /\ ~last.x.ok
  /\ Len(last.requests) = 1
  /\ last.requests[1].method = "POST"
  /\ ~last.diag.nil

(***************************************************************************)
(* C18: after a successful Read every field of the local record is the     *)
(* null-normalized value of the remote record the get returned, whatever   *)
(* the record held before.                                                 *)
(***************************************************************************)
C18_ReadIsFullRefresh ==
  (last.op = "Read" /\ last.wrote) => RefreshedFrom(local, LastRec)

C18_Witness ==
  /\ last.op = "Read"
  /\ last.wrote
  /\ kind = "team"
  /\ last.prior.OrganizationId = StringValue("x")
  /\ LastRec.OrganizationID = ""
  /\ IsNull(local.OrganizationId)

(***************************************************************************)
(* C19: after a successful Create or Update every field of the local       *)
(* record, the identifier included, is the null-normalized value of the    *)
(* record the gateway returned, not the value that was sent.               *)
(***************************************************************************)
C19_WriteOverwritesFromResponse ==
  (last.op \in {"Create", "Update"} /\ last.wrote) => RefreshedFrom(local, LastRec)

(***************************************************************************)
(* The settings conversion on its own: the type switch that turns the      *)
(* settings of an answer into strings is applied to a map of typed values, *)
(* and applied once more to the same map.                                  *)
(***************************************************************************)
\* number of keys a settings map may hold
NumKeys == 2

SettingKeys == {"k" \o ToString(n) : n \in 1..NumKeys}

RawValues ==
  {JString("v"), JString(""), JBool(TRUE), JBool(FALSE), GoInt(42), GoInt(-7), GoUint(100),
   JNumber(3, "14"), JNumber(42, ""), JNumber(0, "5"), GoStringer("1h0m0s"),
   GoOther("map[key:value]"), GoOther("<nil>")}

RawMaps == UNION {[K -> RawValues] : K \in SUBSET SettingKeys}

SettingsInit ==
  /\ kind = "webhook"
  /\ client = [ApiToken |-> "t1", BaseUrl |-> "https://api.make.com/"]
  /\ local = NullRecord(kind)
  /\ planned = NoPlan
  /\ \E m \in RawMaps : last = [op |-> "input", raw |-> m, out |-> EmptyMap, again |-> EmptyMap]

Normalize ==
  /\ last.op = "input"
  /\ last' = [last EXCEPT !.op = "normalize", !.out = SettingsSwitch(last.raw)]
  /\ UNCHANGED <<kind, client, local, planned>>

NormalizeAgain ==
  /\ last.op = "normalize"
  /\ last' = [last EXCEPT !.op = "again", !.again = SettingsSwitch(last.raw)]
  /\ UNCHANGED <<kind, client, local, planned>>

SettingsNext ==
  \/ Normalize
  \/ NormalizeAgain

SettingsSpec == SettingsInit /\ [][SettingsNext]_vars

(***************************************************************************)
(* C20: the conversion gives one string for every key of its input and no  *)
(* other key: a string unchanged, a boolean as true or false, a signed or  *)
(* unsigned integer as its decimal digits (42 as "42", unsigned 100 as     *)
(* "100"), a float with six digits after the point (3.14 as "3.140000"),   *)
(* a value of any other type as its generic rendering; a second call on    *)
(* the same input gives the same map.                                      *)
(***************************************************************************)
C20_SettingsNormalization ==
  (last.op \in {"normalize", "again"}) =>
    /\ DOMAIN last.out = DOMAIN last.raw
    /\ \A key \in DOMAIN last.raw :
         LET v == last.raw[key]
             o == last.out[key]
         IN /\ v.t = "string" => o = v.str
            /\ v.t = "bool" => o = (IF v.b THEN "true" ELSE "false")
            /\ v.t \in {"int", "uint"} => o = ToString(v.int)
            /\ v = GoInt(42) => o = "42"
            /\ v = GoUint(100) => o = "100"
            /\ v.t = "number" => Len(o) = Len(ToString(v.int)) + 7
            /\ v = JNumber(3, "14") => o = "3.140000"
            /\ v = JNumber(0, "5") => o = "0.500000"
            /\ v.t \in {"stringer", "other"} => o = v.str
    /\ last.op = "again" => last.again = last.out

C20_Witness ==
  /\ last.op = "again"
  /\ DOMAIN last.raw = {"k1", "k2"}
  /\ last.raw["k1"] = JNumber(3, "14")
  /\ last.raw["k2"] = GoUint(100)
  /\ last.out["k1"] = "3.140000"
  /\ last.out["k2"] = "100"
  /\ last.again = last.out

(***************************************************************************)
(* Vocabulary of the claims about the gateways, continued.                 *)
(***************************************************************************)
\* the HTTP method of each gateway operation
GatewayMethod(op) ==
  CASE op = "create" -> "POST"
    [] op = "get" -> "GET"
    [] op = "update" -> "PUT"
    [] op = "delete" -> "DELETE"

CollectionPath == "/" \o Collection(kind)

(***************************************************************************)
(* C21: create issues POST to the collection path of the kind; get, update *)
(* and delete issue GET, PUT and DELETE to the collection path followed by *)
(* the identifier as its last segment, and for no identifier, the empty    *)
(* string included, to the collection path itself or to another path.      *)
(***************************************************************************)
C21_RequestPaths ==
  (last.op \in {"create", "get", "update", "delete"} /\ last.requests # <<>>) =>
    /\ last.requests[1].method = GatewayMethod(last.op)
    /\ last.op = "create" => UrlPath(last.requests[1]) = CollectionPath
    /\ last.op # "create" =>
         /\ UrlPath(last.requests[1]) = CollectionPath \o "/" \o last.id
         /\ UrlPath(last.requests[1]) # CollectionPath

\* the gateway of the last call reads the body of its answer
ReadsBody ==
  /\ last.x.ok
  /\ ~(last.op \in {"get", "update", "delete"} /\ last.x.status = StatusNotFound)
  /\ ~(last.op = "delete" /\ last.x.status < 400)

\* the caller cancelled the context while the request of the last call was in
\* flight: before the answer came, or while the gateway was reading its body
CancelledInFlight ==
  /\ last.op \in {"create", "get", "update", "delete"}
  /\ last.requests # <<>>
  /\ last.x.body.form = "cancelled"
  /\ ~last.x.ok \/ ReadsBody

(***************************************************************************)
(* C23: when the caller cancels the context while the request of a gateway *)
(* operation is in flight, the operation returns an error that is a        *)
(* cancellation error (the cancellation is in its chain) and not an API    *)
(* error.                                                                  *)
(***************************************************************************)
C23_CancellationReported ==
  CancelledInFlight =>
    /\ ~last.err.nil
    /\ last.err.isCanceled
    /\ last.err # ApiErrorOf(last.x.status, StatusLine(last.x.status))

(***************************************************************************)
(* C27: on every path of every gateway operation (success, 404, status >=  *)
(* 400, body that does not decode), a response obtained from the transport *)
(* has been closed when the operation returns; when none was obtained      *)
(* nothing is closed.                                                      *)
(***************************************************************************)
C27_ResponseClosed ==
  (last.op \in {"create", "get", "update", "delete"}) =>
    IF last.requests # <<>> /\ last.x.ok THEN last.closes >= 1 ELSE last.closes = 0

C27_Witness ==
  /\ last.op = "get"
  /\ last.x.ok
  /\ last.x.status = 200
  /\ last.x.body.form = "invalid"
  /\ ~last.err.nil
  /\ last.closes = 1

(***************************************************************************)
(* Two resource instances of one kind reconciled concurrently.  Both use   *)
(* the one resource object of the kind and, through it, the one client.    *)
(* A handler invocation is two steps: up to the point where its request is *)
(* on the wire (Begin...), and from the answer to its return (Finish); the *)
(* steps of the two instances interleave freely.  `local` and `planned`    *)
(* hold one entry per instance, `last` the handler that returned last.     *)
(***************************************************************************)
Instances == {"a", "b"}

\* the identifier the remote service gives the instance
InstanceId(i) == IF i = "a" THEN "i1" ELSE "i2"

\* a handler invocation as a function of its own inputs
Outcome(op, prior, plan, x) ==
  CASE op = "Create" -> ResourceCreate(kind, prior, plan, x)
    [] op = "Read" -> ResourceRead(kind, prior, x)
    [] op = "Update" -> ResourceUpdate(kind, prior, plan, x)
    [] op = "Delete" -> ResourceDelete(kind, prior, x)

\* the record the orchestrator keeps after the handler returned
Kept(o, prior) == IF o.diag.nil THEN o.state ELSE prior

\* mutant: the joined URL is stored back into the shared client
ClientAfterRequest_StoresUrl(c, endpoint) == [c EXCEPT !.BaseUrl = @ \o endpoint]

\* MakeRequest works on the parsed copy of c.BaseUrl and reads c.ApiToken:
\* the client is left as it was
ClientAfterRequest(c, endpoint) == c

\* the handler returns: the orchestrator keeps the record, `last` holds what
\* the handler did; read is the client configuration its request was built from
Returned(i, x, o, read) ==
  /\ local' = [local EXCEPT ![i] = Kept(o, planned[i].prior)]
  /\ last' = [inst |-> i, op |-> planned[i].op, x |-> x, read |-> read,
              requests |-> o.requests, diag |-> o.diag,
              during |-> {j \in Instances \ {i} : planned[j].pc = "flight"}]

InstancePlans(id) ==
  {p \in Plans(kind, id) :
     /\ \A f \in OptionalText(kind) : p[f.model] = StringValue("x")
     /\ \A f \in OptionalOther(kind) : ~IsNull(p[f.model])
     /\ HasSettings(kind) => p.Settings = MapValue([a |-> "v"])}

InstanceAnswers(i) ==
  {NetFail(kind), [ok |-> TRUE, status |-> 500, body |-> ErrorBody(kind, "bad", "E1", "{bad,E1}")]}
    \cup {[ok |-> TRUE, status |-> 200, body |-> RecordBody(kind, r)] :
            r \in {q \in Responses(kind) :
                     /\ q.ID = InstanceId(i)
                     /\ \A f \in OptionalText(kind) : q[f.resp] = "x"
                     /\ HasSettings(kind) => q.Settings = [a |-> JString("v")]}}

InstanceDeleteAnswers ==
  {x \in DeleteExchanges(kind) : x.ok => x.status \in {204, 404, 500}}

\* what a resource holds when no client was handed to it
NilClient == [ApiToken |-> "", BaseUrl |-> ""]

Idle == [pc |-> "idle", op |-> "None", plan |-> NullRecord(kind), prior |-> NullRecord(kind),
         read |-> NilClient]

\* read: the base address and token MakeRequest read to build the request
InFlight(op, prior, plan) ==
  [pc |-> "flight", op |-> op, plan |-> plan, prior |-> prior, read |-> client]

NoneReturned ==
  [inst |-> "none", op |-> "None", x |-> NetFail(kind), read |-> NilClient,
   requests |-> <<>>, diag |-> NoDiag, during |-> {}]

ConcurrentInit ==
  /\ kind \in Kinds
  /\ client = [ApiToken |-> "t1", BaseUrl |-> "https://api.make.com/"]
  /\ local = [i \in Instances |-> NullRecord(kind)]
  /\ planned = [i \in Instances |-> Idle]
  /\ last = NoneReturned

\* the handler of instance i runs up to HTTPClient.Do
Begin(i, op, plan) ==
  /\ planned[i].pc = "idle"
  /\ planned' = [planned EXCEPT ![i] = InFlight(op, local[i], plan)]
  /\ client' = ClientAfterRequest(client, Collection(kind))
  /\ UNCHANGED <<kind, local, last>>

BeginCreate ==
  \E i \in Instances :
    /\ Absent(local[i])
    /\ \E plan \in InstancePlans(StringUnknown) : Begin(i, "Create", plan)

BeginRead ==
  \E i \in Instances :
    /\ ~Absent(local[i])
    /\ Begin(i, "Read", NullRecord(kind))

BeginUpdate ==
  \E i \in Instances :
    /\ ~Absent(local[i])
    /\ \E plan \in InstancePlans(local[i].Id) : Begin(i, "Update", plan)

BeginDelete ==
  \E i \in Instances :
    /\ ~Absent(local[i])
    /\ Begin(i, "Delete", NullRecord(kind))

\* the answer arrives and the handler of instance i runs to its return
Finish ==
  \E i \in Instances :
    /\ planned[i].pc = "flight"
    /\ \E x \in (IF planned[i].op = "Delete" THEN InstanceDeleteAnswers
                 ELSE InstanceAnswers(i)) :
         Returned(i, x, Outcome(planned[i].op, planned[i].prior, planned[i].plan, x),
                  planned[i].read)
    /\ planned' = [planned EXCEPT ![i] = Idle]
    /\ UNCHANGED <<kind, client>>

ConcurrentNext ==
  \/ BeginCreate
  \/ BeginRead
  \/ BeginUpdate
  \/ BeginDelete
  \/ Finish

ConcurrentSpec == ConcurrentInit /\ [][ConcurrentNext]_vars

DefaultBaseUrl == "https://api.make.com/"

\* os.Getenv gives the empty string for a variable that is not set
EnvTokens == {"", "t1"}
EnvBaseUrls == {"", "https://eu1.make.com/"}
\* the attributes of the provider block
BlockTokens == {StringNull, StringValue(""), StringValue("t2")}
BlockBaseUrls == {StringNull, StringUnknown, StringValue(""), StringValue("https://eu2.make.com/")}

Configurations ==
  [MAKE_API_TOKEN : EnvTokens, MAKE_BASE_URL : EnvBaseUrls,
   ApiToken : BlockTokens, BaseUrl : BlockBaseUrls]

\* mutant: the token is not validated
MakeProviderConfigure_NoValidation(cfg) ==
  LET envUrl == IF cfg.MAKE_BASE_URL = "" THEN DefaultBaseUrl ELSE cfg.MAKE_BASE_URL
      apiToken == IF ~IsNull(cfg.ApiToken) THEN ValueString(cfg.ApiToken)
                  ELSE cfg.MAKE_API_TOKEN
      baseUrl == IF ~IsNull(cfg.BaseUrl) THEN ValueString(cfg.BaseUrl) ELSE envUrl
  IN [diag |-> NoDiag, handed |-> TRUE,
      client |-> [ApiToken |-> apiToken, BaseUrl |-> baseUrl]]

\* MakeProvider.Configure; handed: resp.ResourceData and resp.DataSourceData are set
MakeProviderConfigure(cfg) ==
  LET envUrl == IF cfg.MAKE_BASE_URL = "" THEN DefaultBaseUrl ELSE cfg.MAKE_BASE_URL
      apiToken == IF ~IsNull(cfg.ApiToken) THEN ValueString(cfg.ApiToken)
                  ELSE cfg.MAKE_API_TOKEN
      baseUrl == IF ~IsNull(cfg.BaseUrl) THEN ValueString(cfg.BaseUrl) ELSE envUrl
  IN IF apiToken = ""
       THEN [diag |-> AddError("Missing API Token Configuration",
                               "While configuring the provider, the API token was not found"),
             handed |-> FALSE, client |-> NilClient]
     ELSE [diag |-> NoDiag, handed |-> TRUE,
           client |-> [ApiToken |-> apiToken, BaseUrl |-> baseUrl]]

NotConfigured == [op |-> "none", diag |-> NoDiag, handed |-> FALSE, requests |-> <<>>]

ConfigureInit ==
  /\ kind = "scenario"
  /\ client = NilClient
  /\ local = NullRecord(kind)
  /\ planned \in Configurations
  /\ last = NotConfigured

Configure ==
  /\ last.op = "none"
  /\ LET o == MakeProviderConfigure(planned)
     IN /\ client' = o.client
        /\ last' = [op |-> "Configure", diag |-> o.diag, handed |-> o.handed,
                    requests |-> <<>>]
  /\ UNCHANGED <<kind, local, planned>>

\* a request with a URL that has no host is refused by the transport
HostAnswers ==
  IF client.BaseUrl = "" THEN {NetFail(kind)}
  ELSE {NetFail(kind), [ok |-> TRUE, status |-> 404, body |-> ErrorBody(kind, "bad", "E1", "{bad,E1}")]}

\* ScenarioResource.Configure, then its Read: without provider data there is
\* no client to call
FirstRead ==
  /\ last.op = "Configure"
  /\ \E id \in Ids, x \in HostAnswers :
       last' = [last EXCEPT !.op = "Read",
                            !.requests = IF last.handed THEN Sent(GatewayGet(kind, id, x))
                                         ELSE <<>>]
  /\ UNCHANGED <<kind, client, local, planned>>

ConfigureNext ==
  \/ Configure
  \/ FirstRead

ConfigureSpec == ConfigureInit /\ [][ConfigureNext]_vars

(***************************************************************************)
(* C24: after a successful Configure the base address of the client is the *)
(* base_url of the provider block when one is given, else the value of     *)
(* MAKE_BASE_URL when not empty, else https://api.make.com/; it is never   *)
(* empty.                                                                  *)
(***************************************************************************)
C24_BaseAddressPrecedence ==
  (last.op = "Configure" /\ last.handed) =>
    /\ client.BaseUrl =
         (IF ~IsNull(planned.BaseUrl) THEN ValueString(planned.BaseUrl)
          ELSE IF planned.MAKE_BASE_URL # "" THEN planned.MAKE_BASE_URL
          ELSE DefaultBaseUrl)
    /\ client.BaseUrl # ""

(***************************************************************************)
(* C25: when neither the provider block nor MAKE_API_TOKEN supplies a      *)
(* non-empty token, Configure reports an error and hands over no client,   *)
(* and no request is issued; no request at all carries an empty token.     *)
(***************************************************************************)
C25_TokenRequired ==
  /\ (last.op \in {"Configure", "Read"}
        /\ ValueString(planned.ApiToken) = "" /\ planned.MAKE_API_TOKEN = "") =>
       (~last.diag.nil /\ ~last.handed /\ client = NilClient /\ last.requests = <<>>)
  /\ \A i \in DOMAIN last.requests :
       (last.requests[i].auth # "Token " /\ client.ApiToken # "")

C25_Witness ==
  /\ last.op = "Read"
  /\ IsNull(planned.ApiToken)
  /\ planned.MAKE_API_TOKEN = ""
  /\ planned.BaseUrl = StringValue("https://eu2.make.com/")
  /\ ~last.diag.nil
  /\ last.requests = <<>>

(***************************************************************************)
(* C26: for a Connection or a Webhook, Create, Read and Update turn the    *)
(* same remote settings map into the same local settings map, so the       *)
(* record any of them wrote holds the settings each of the three yields    *)
(* from the answer it received.                                            *)
(***************************************************************************)
C26_SettingsSameInEveryOperation ==
  (/\ last.op \in {"Create", "Read", "Update"}
   /\ last.wrote
   /\ HasSettings(kind)
   /\ DOMAIN LastRec.Settings # {}) =>
    LET c == ResourceCreate(kind, NullRecord(kind), last.plan, last.x).state.Settings
        r == ResourceRead(kind, local, last.x).state.Settings
        u == ResourceUpdate(kind, local, last.plan, last.x).state.Settings
    IN /\ c = r
       /\ r = u
       /\ local.Settings = r

(***************************************************************************)
(* C28: when the request of a Create, Read or Update is answered with a    *)
(* status < 400 and a body that does not decode as the kind's record, the  *)
(* gateway returns an error, the handler reports it and writes no record:  *)
(* after Create there is still no record (the identifier stays unknown),   *)
(* after Read the record is the prior one.                                 *)
(***************************************************************************)
C28_UndecodableSuccessResponse ==
  (/\ last.op \in {"Create", "Read", "Update"}
   /\ last.x.ok
   /\ last.x.status < 400
   /\ last.x.body.form = "invalid") =>
    /\ ~last.err.nil
    /\ last.diag = AddError("Client Error",
                            "Unable to " \o VerbOf(last.op) \o " " \o kind
                              \o ", got error: " \o last.err.msg)
    /\ ~last.wrote
    /\ last.op = "Create" => Absent(local)
    /\ last.op = "Read" => local = last.prior
    /\ last.op = "Update" => local.Id = last.plan.Id

C28_Witness ==
  /\ last.op = "Create"
  /\ Answered(200)
  /\ last.x.body.form = "invalid"
  /\ Len(last.requests) = 1
  /\ ~last.diag.nil
  /\ Absent(local)

(***************************************************************************)
(* C29: a Read that directly follows a successful Update and is answered   *)
(* with the same remote record leaves the local record, field for field,   *)
(* as the Update wrote it, for every kind (Team's organization_id          *)
(* included).                                                              *)
(***************************************************************************)
C29_UpdateReadRoundTrip ==
  [][(last.op = "Update" /\ last.wrote /\ last'.op = "Read" /\ last'.wrote
        /\ last'.x = last.x) => local' = local]_vars

\* the JSON keys of the fields the remote service computes
ComputedKeys == {"id", "url", "verified"}

(***************************************************************************)
(* C30: the body of the request of a Create or an Update has no entry for  *)
(* a server-computed field (the identifier, the url of a webhook, the      *)
(* verified flag of a connection), whatever the plan holds.                *)
(***************************************************************************)
C30_ComputedFieldsNeverSent ==
  (last.op \in {"Create", "Update"} /\ last.requests # <<>>) =>
    (last.requests[1].hasBody /\ DOMAIN LastBody \cap ComputedKeys = {})

====
